---- MODULE Spec2Model ----
(***************************************************************************)
(* A model of generate_dataset.py: the Group Sampler                       *)
(* (generate_group_data), the Dataset Assembler (create_dataset), the Plot *)
(* Renderer (save_boxplot) and the command-line driver (main).             *)
(*                                                                         *)
(* Numbers.  Python floats are modelled as integers counting hundredths:   *)
(* 306 stands for 3.06.  max_change is kept in whole percent.  The input   *)
(* grids below are chosen so that every product the code forms is exact in *)
(* hundredths.                                                             *)
(*                                                                         *)
(* Randomness.  np.random.uniform / normal / exponential and uuid.uuid4    *)
(* are nondeterministic choices over a small grid of the outcomes the      *)
(* library can produce (the end points and the middle of an interval, two  *)
(* standard draws per distribution, three UUIDs of which two share their   *)
(* first eight characters).                                                *)
(***************************************************************************)
EXTENDS Integers, Sequences, FiniteSets, TLC

VARIABLES
    pc,          \* position of the run
    input,       \* what the run was started with (argv or keyword arguments)
    args,        \* the parsed configuration (main: args; create_dataset: its parameters)
    i,           \* create_dataset: index of the group being processed (1-based)
    group_mean,  \* create_dataset: the effective mean of the current group
    group_data,  \* create_dataset: the array the sampler returned for the current group
    k,           \* create_dataset: index of the next value of group_data to wrap
    data,        \* create_dataset: the list of observations built so far
    calls,       \* history: one record per generate_group_data call
    draws,       \* history: one record per group, the random draws behind its mean
    error,       \* the exception that ended the run, if any
    csv,         \* the CSV output file
    png,         \* the plot output file
    steps        \* history: the steps of main in the order they completed

vars == <<pc, input, args, i, group_mean, group_data, k, data, calls, draws,
          error, csv, png, steps>>

----------------------------------------------------------------------------
(* Bounds of the model. *)

MaxGroups == 2      \* longest declared list of groups
MaxN == 2           \* largest n_per_group
MaxRows == 4        \* largest groups x n_per_group

----------------------------------------------------------------------------
(* Small helpers. *)

Min(a, b) == IF a <= b THEN a ELSE b
Max(a, b) == IF a >= b THEN a ELSE b
Abs(a) == IF a >= 0 THEN a ELSE -a

SeqsUpTo(S, n) == UNION {[1..m -> S] : m \in 0..n}

RECURSIVE Pow10(_)
Pow10(d) == IF d <= 0 THEN 1 ELSE 10 * Pow10(d - 1)

\* create_dataset, line 62: percent to fraction
Percent == 100

----------------------------------------------------------------------------
(* Library behaviour the code relies on. *)

\* np.random.uniform(low, high): low + (high - low) * U, U in [0, 1).  numpy
\* does not reject high < low, and documents that rounding can return high.
Uniform(low, high) == {low, low + ((high - low) \div 2), high}

\* Standard draws: value = loc + scale * z (normal), scale * e (exponential).
StdNormal == {-1, 1}
StdExponential == {0, 2}

NoError == [type |-> "none", msg |-> <<>>]
ValueError(m) == [type |-> "ValueError", msg |-> m]

\* round(value, precision) on a numpy float: round half to even at 10^-precision.
\* Values carry two decimals, so the rounding unit is 10^(2 - precision) hundredths.
RoundHalfEven(v, unit) ==
    LET q == v \div unit
        r == v % unit
    IN  IF 2 * r < unit THEN q * unit
        ELSE IF 2 * r > unit THEN (q + 1) * unit
        ELSE IF q % 2 = 0 THEN q * unit ELSE (q + 1) * unit

round(value, precision) ==
    IF precision >= 2 THEN value
    ELSE RoundHalfEven(value, Pow10(2 - precision))

\* str(uuid.uuid4()): 36 characters, 8-4-4-4-12 hexadecimal digits.
UuidTailA == <<"-", "4", "b", "1", "d", "-", "4", "c", "0", "e", "-",
               "9", "a", "7", "f", "-", "2", "d", "5", "5", "0", "b",
               "6", "1", "e", "8", "a", "3">>
UuidTailB == <<"-", "9", "e", "0", "2", "-", "4", "7", "a", "a", "-",
               "b", "3", "1", "c", "-", "f", "0", "6", "4", "d", "2",
               "7", "7", "a", "9", "1", "5">>
UuidHeadA == <<"3", "f", "2", "a", "9", "c", "1", "e">>
UuidHeadB == <<"c", "0", "7", "7", "4", "e", "5", "b">>
uuid4 == {UuidHeadA \o UuidTailA, UuidHeadA \o UuidTailB, UuidHeadB \o UuidTailA}

----------------------------------------------------------------------------
(* generate_group_data and the two numpy samplers it dispatches to.  An     *)
(* outcome is [error, values]: the exception raised, or the array returned. *)

Raised(e) == [error |-> e, values |-> <<>>]
Returned(S) == {[error |-> NoError, values |-> v] : v \in S}

\* Variant: scale=sd left out of the call, so numpy's default scale 1.0 applies.
normal_default_scale(loc, scale, size) ==
    IF size < 0 THEN {Raised(ValueError(<<"negative dimensions are not allowed">>))}
    ELSE Returned([1..size -> {loc + Percent * z : z \in StdNormal}])

\* np.random.normal(loc, scale, size): rejects scale < 0 and size < 0.
normal(loc, scale, size) ==
    IF scale < 0 THEN {Raised(ValueError(<<"scale < 0">>))}
    ELSE IF size < 0 THEN {Raised(ValueError(<<"negative dimensions are not allowed">>))}
    ELSE Returned([1..size -> {loc + scale * z : z \in StdNormal}])

\* np.random.exponential(scale, size): rejects scale < 0 and size < 0.
exponential(scale, size) ==
    IF scale < 0 THEN {Raised(ValueError(<<"scale < 0">>))}
    ELSE IF size < 0 THEN {Raised(ValueError(<<"negative dimensions are not allowed">>))}
    ELSE Returned([1..size -> {scale * e : e \in StdExponential}])

\* Variant: an unknown kind falls through to the normal sampler.
generate_group_data_fallback(n, mean, sd, distribution) ==
    IF distribution = "exponential" THEN exponential(mean, n)
    ELSE normal(mean, sd, n)

generate_group_data(n, mean, sd, distribution) ==
    IF distribution = "normal" THEN normal(mean, sd, n)
    ELSE IF distribution = "exponential" THEN exponential(mean, n)
    ELSE {Raised(ValueError(<<"Unsupported distribution: ", distribution>>))}

----------------------------------------------------------------------------
(* create_dataset, lines 58-67: the effective mean of group number idx.     *)
(* An outcome records the mean and the draws behind it.                     *)

\* Variant: the baseline test compares a 1-based index with 0, so the first
\* group is perturbed like the others.
group_means_no_baseline(idx, base_mean, base_sd, significant, max_change) ==
    IF significant
    THEN {[mean |-> (base_mean * (Percent + u)) \div Percent, perturbed |-> TRUE,
           change |-> u, noised |-> FALSE, noise |-> 0] :
              u \in Uniform(0, max_change)}
    ELSE {[mean |-> ((base_mean * (Percent + u)) \div Percent) + e, perturbed |-> TRUE,
           change |-> u, noised |-> TRUE, noise |-> e] :
              u \in Uniform(0, max_change),
              e \in Uniform(-(base_sd \div 10), base_sd \div 10)}

\* Variant: the drawn percentage is used as a fraction (no division by 100).
group_means_no_percent(idx, base_mean, base_sd, significant, max_change) ==
    IF idx = 1
    THEN {[mean |-> base_mean, perturbed |-> FALSE, change |-> 0,
           noised |-> FALSE, noise |-> 0]}
    ELSE IF significant
    THEN {[mean |-> base_mean * (1 + u), perturbed |-> TRUE,
           change |-> u, noised |-> FALSE, noise |-> 0] :
              u \in Uniform(0, max_change)}
    ELSE {[mean |-> (base_mean * (1 + u)) + e, perturbed |-> TRUE,
           change |-> u, noised |-> TRUE, noise |-> e] :
              u \in Uniform(0, max_change),
              e \in Uniform(-(base_sd \div 10), base_sd \div 10)}

\* Variant: the significant test is inverted (noise when significant).
group_means_flag_inverted(idx, base_mean, base_sd, significant, max_change) ==
    IF idx = 1
    THEN {[mean |-> base_mean, perturbed |-> FALSE, change |-> 0,
           noised |-> FALSE, noise |-> 0]}
    ELSE IF ~significant
    THEN {[mean |-> (base_mean * (Percent + u)) \div Percent, perturbed |-> TRUE,
           change |-> u, noised |-> FALSE, noise |-> 0] :
              u \in Uniform(0, max_change)}
    ELSE {[mean |-> ((base_mean * (Percent + u)) \div Percent) + e, perturbed |-> TRUE,
           change |-> u, noised |-> TRUE, noise |-> e] :
              u \in Uniform(0, max_change),
              e \in Uniform(-(base_sd \div 10), base_sd \div 10)}

group_means(idx, base_mean, base_sd, significant, max_change) ==
    IF idx = 1
    THEN {[mean |-> base_mean, perturbed |-> FALSE, change |-> 0,
           noised |-> FALSE, noise |-> 0]}
    ELSE IF significant
    THEN {[mean |-> (base_mean * (Percent + u)) \div Percent, perturbed |-> TRUE,
           change |-> u, noised |-> FALSE, noise |-> 0] :
              u \in Uniform(0, max_change)}
    ELSE {[mean |-> ((base_mean * (Percent + u)) \div Percent) + e, perturbed |-> TRUE,
           change |-> u, noised |-> TRUE, noise |-> e] :
              u \in Uniform(0, max_change),
              e \in Uniform(-(base_sd \div 10), base_sd \div 10)}

\* Variant: every observation is tagged with the first declared label.
observation_first_label(uuid, group, value, precision) ==
    [ID |-> SubSeq(uuid, 1, 8), Group |-> args.groups[1],
     value |-> round(value, precision)]

\* create_dataset, lines 71-75: one observation.
observation(uuid, group, value, precision) ==
    [ID |-> SubSeq(uuid, 1, 8), Group |-> group, value |-> round(value, precision)]

\* Variant: data.insert(0, ...) in place of data.append(...)
prepend(list, row) == <<row>> \o list

\* create_dataset, line 71: data.append(...)
append(list, row) == Append(list, row)

----------------------------------------------------------------------------
(* main, lines 93-120: the argument parser.                                 *)

LowerChar(c) ==
    CASE c = "T" -> "t" [] c = "R" -> "r" [] c = "U" -> "u" [] c = "E" -> "e"
      [] c = "F" -> "f" [] c = "A" -> "a" [] c = "L" -> "l" [] c = "S" -> "s"
      [] c = "Y" -> "y" [] OTHER -> c

lower(s) == [n \in 1..Len(s) |-> LowerChar(s[n])]

\* --significant, type=lambda x: (str(x).lower() == 'true')
significant_type(x) == lower(x) = <<"t", "r", "u", "e">>

DistributionChoices == {"normal", "exponential"}

\* parse_args(): rejects a distribution outside choices and an empty
\* --groups (nargs='+'); everything else is type conversion.
parse_ok(argv) ==
    /\ argv.distribution \in DistributionChoices
    /\ Len(argv.groups) >= 1

parse_args(argv) ==
    [groups       |-> argv.groups,
     n_per_group  |-> argv.n_per_group,
     distribution |-> argv.distribution,
     significant  |-> significant_type(argv.significant),
     precision    |-> argv.precision,
     mean         |-> argv.mean,
     sd           |-> argv.sd,
     max_change   |-> argv.max_change,
     plot         |-> argv.plot]

\* A direct call create_dataset(...): the keyword arguments are the parameters.
bind_call(kwargs) ==
    [groups       |-> kwargs.groups,
     n_per_group  |-> kwargs.n_per_group,
     distribution |-> kwargs.distribution,
     significant  |-> kwargs.significant,
     precision    |-> kwargs.precision,
     mean         |-> kwargs.mean,
     sd           |-> kwargs.sd,
     max_change   |-> kwargs.max_change,
     plot         |-> FALSE]

NoArgs ==
    [groups |-> <<>>, n_per_group |-> 0, distribution |-> "", significant |-> FALSE,
     precision |-> 0, mean |-> 0, sd |-> 0, max_change |-> 0, plot |-> FALSE]

----------------------------------------------------------------------------
(* The runs the model starts from.                                          *)

Labels == {"Control", "Treatment"}
GroupLists == SeqsUpTo(Labels, MaxGroups)
SampleSizes == -1..MaxN

\* A control group followed by treatment groups
Designs ==
    {[g \in 1..m |-> IF g = 1 THEN "Control" ELSE "Treatment"] : m \in 0..MaxGroups}
Kinds == {"normal", "exponential", "uniform"}

\* --significant as typed on the command line
True == <<"T", "r", "u", "e">>
false == <<"f", "a", "l", "s", "e">>
yes == <<"y", "e", "s">>

InBounds(r) == Len(r.groups) * r.n_per_group <= MaxRows

\* python generate_dataset.py --groups ... --n_per_group ... [--plot]
CliRuns(G, N, D, S, P, M, SD, MC, PL) ==
    {r \in [entry : {"cli"}, groups : G, n_per_group : N, distribution : D,
            significant : S, precision : P, mean : M, sd : SD, max_change : MC,
            plot : PL] : InBounds(r)}

\* create_dataset(variable, groups, n_per_group, ...) called by an importing module
ApiRuns(G, N, D, S, P, M, SD, MC) ==
    {r \in [entry : {"api"}, groups : G, n_per_group : N, distribution : D,
            significant : S, precision : P, mean : M, sd : SD, max_change : MC] :
        InBounds(r)}

InitWith(R) ==
    /\ input \in R
    /\ pc = "start"
    /\ args = NoArgs
    /\ i = 0
    /\ group_mean = 0
    /\ group_data = <<>>
    /\ k = 0
    /\ data = <<>>
    /\ calls = <<>>
    /\ draws = <<>>
    /\ error = NoError
    /\ csv = [written |-> FALSE, rows |-> <<>>]
    /\ png = [written |-> FALSE]
    /\ steps = <<>>

----------------------------------------------------------------------------
(* Actions.                                                                 *)

Fail(e) ==
    /\ pc' = "failed"
    /\ error' = e

\* main, line 120: args = parser.parse_args()
ParseArgs ==
    /\ pc = "start"
    /\ input.entry = "cli"
    /\ parse_ok(input)
    /\ args' = parse_args(input)
    /\ input' = [entry |-> "cli"]
    /\ i' = 1
    /\ pc' = "loop"
    /\ steps' = Append(steps, "parse")
    /\ UNCHANGED <<group_mean, group_data, k, data, calls, draws, error, csv, png>>

\* main, line 120: parse_args() prints the usage and exits with status 2
ParseArgsExits ==
    /\ pc = "start"
    /\ input.entry = "cli"
    /\ ~parse_ok(input)
    /\ Fail([type |-> "SystemExit", msg |-> <<"2">>])
    /\ input' = [entry |-> "cli"]
    /\ UNCHANGED <<args, i, group_mean, group_data, k, data, calls, draws, csv, png, steps>>

\* create_dataset, lines 48-57, entered from another module
CallCreateDataset ==
    /\ pc = "start"
    /\ input.entry = "api"
    /\ args' = bind_call(input)
    /\ input' = [entry |-> "api"]
    /\ i' = 1
    /\ pc' = "loop"
    /\ UNCHANGED <<group_mean, group_data, k, data, calls, draws, error, csv, png, steps>>

\* create_dataset, lines 57-67: the next group's effective mean
GroupMean ==
    /\ pc = "loop"
    /\ i <= Len(args.groups)
    /\ \E m \in group_means(i, args.mean, args.sd, args.significant, args.max_change) :
          /\ group_mean' = m.mean
          /\ draws' = Append(draws, m)
    /\ pc' = "sample"
    /\ UNCHANGED <<input, args, i, group_data, k, data, calls, error, csv, png, steps>>

Call(n, mean, sd, distribution, outcome) ==
    [n |-> n, mean |-> mean, sd |-> sd, distribution |-> distribution,
     error |-> outcome.error, values |-> outcome.values]

\* create_dataset, line 69: group_data = generate_group_data(...) returns
Sample ==
    /\ pc = "sample"
    /\ \E o \in generate_group_data(args.n_per_group, group_mean, args.sd,
                                    args.distribution) :
          /\ o.error = NoError
          /\ group_data' = o.values
          /\ calls' = Append(calls, Call(args.n_per_group, group_mean, args.sd,
                                         args.distribution, o))
          /\ IF Len(o.values) = 0
             THEN /\ i' = i + 1
                  /\ k' = 0
                  /\ pc' = "loop"
             ELSE /\ i' = i
                  /\ k' = 1
                  /\ pc' = "append"
    /\ UNCHANGED <<input, args, group_mean, data, draws, error, csv, png, steps>>

\* create_dataset, line 69: generate_group_data(...) raises; nothing catches it
SampleRaises ==
    /\ pc = "sample"
    /\ \E o \in generate_group_data(args.n_per_group, group_mean, args.sd,
                                    args.distribution) :
          /\ o.error # NoError
          /\ calls' = Append(calls, Call(args.n_per_group, group_mean, args.sd,
                                         args.distribution, o))
          /\ Fail(o.error)
    /\ UNCHANGED <<input, args, i, group_mean, group_data, k, data, draws, csv, png, steps>>

\* create_dataset, lines 70-75: wrap the next value of group_data
AppendRow ==
    /\ pc = "append"
    /\ k <= Len(group_data)
    /\ \E u \in uuid4 :
          data' = append(data, observation(u, args.groups[i], group_data[k],
                                           args.precision))
    /\ IF k = Len(group_data)
       THEN /\ i' = i + 1
            /\ k' = 0
            /\ pc' = "loop"
       ELSE /\ i' = i
            /\ k' = k + 1
            /\ pc' = "append"
    /\ UNCHANGED <<input, args, group_mean, group_data, calls, draws, error, csv, png, steps>>

\* Variant: the return statement indented into the loop body, so that the
\* function returns once the first group is processed.
ReturnInsideLoop ==
    /\ pc = "loop"
    /\ i > Len(args.groups) \/ i = 2
    /\ pc' = IF input.entry = "cli" THEN "to_csv" ELSE "returned"
    /\ steps' = Append(steps, "assemble")
    /\ UNCHANGED <<input, args, i, group_mean, group_data, k, data, calls, draws,
                   error, csv, png>>

\* create_dataset, line 77: return pd.DataFrame(data)
ReturnDataFrame ==
    /\ pc = "loop"
    /\ i > Len(args.groups)
    /\ pc' = IF input.entry = "cli" THEN "to_csv" ELSE "returned"
    /\ steps' = Append(steps, "assemble")
    /\ UNCHANGED <<input, args, i, group_mean, group_data, k, data, calls, draws,
                   error, csv, png>>

\* main, lines 134-135: df.to_csv(args.output, index=False)
WriteCsv ==
    /\ pc = "to_csv"
    /\ csv' = [written |-> TRUE, rows |-> data]
    /\ pc' = "plot"
    /\ steps' = Append(steps, "csv")
    /\ UNCHANGED <<input, args, i, group_mean, group_data, k, data, calls, draws,
                   error, png>>

\* main, line 134: the output path cannot be written
WriteCsvRaises ==
    /\ pc = "to_csv"
    /\ Fail([type |-> "OSError", msg |-> <<"output">>])
    /\ UNCHANGED <<input, args, i, group_mean, group_data, k, data, calls, draws,
                   csv, png, steps>>

\* main, lines 137-138 and save_boxplot, lines 83-90
SaveBoxplot ==
    /\ pc = "plot"
    /\ args.plot
    /\ Len(data) > 0
    /\ png' = [written |-> TRUE]
    /\ pc' = "done"
    /\ steps' = Append(steps, "plot")
    /\ UNCHANGED <<input, args, i, group_mean, group_data, k, data, calls, draws,
                   error, csv>>

\* save_boxplot, line 84: an empty frame has no Group column (KeyError);
\* line 88: the plot path cannot be written (OSError)
SaveBoxplotRaises ==
    /\ pc = "plot"
    /\ args.plot
    /\ \/ /\ Len(data) = 0
          /\ Fail([type |-> "KeyError", msg |-> <<"Group">>])
       \/ /\ Len(data) > 0
          /\ Fail([type |-> "OSError", msg |-> <<"plot_file">>])
    /\ UNCHANGED <<input, args, i, group_mean, group_data, k, data, calls, draws,
                   csv, png, steps>>

\* Variant: save_boxplot called whether or not --plot was given.
SkipPlotRenders ==
    /\ pc = "plot"
    /\ ~args.plot
    /\ png' = [written |-> TRUE]
    /\ pc' = "done"
    /\ steps' = Append(steps, "plot")
    /\ UNCHANGED <<input, args, i, group_mean, group_data, k, data, calls, draws,
                   error, csv>>

\* main, line 137: --plot was not given
SkipPlot ==
    /\ pc = "plot"
    /\ ~args.plot
    /\ pc' = "done"
    /\ UNCHANGED <<input, args, i, group_mean, group_data, k, data, calls, draws,
                   error, csv, png, steps>>

Next ==
    \/ ParseArgs
    \/ ParseArgsExits
    \/ CallCreateDataset
    \/ GroupMean
    \/ Sample
    \/ SampleRaises
    \/ AppendRow
    \/ ReturnDataFrame
    \/ WriteCsv
    \/ WriteCsvRaises
    \/ SaveBoxplot
    \/ SaveBoxplotRaises
    \/ SkipPlot

----------------------------------------------------------------------------
(* Specifications.                                                          *)

\* Structure and control flow: every list of groups, every sample size and
\* every distribution kind, from the command line and by direct call.
Init ==
    \/ InitWith(CliRuns(GroupLists, SampleSizes, Kinds, {True, false}, {0},
                        {300}, {50}, {0}, BOOLEAN))
    \/ InitWith(ApiRuns(GroupLists, SampleSizes, Kinds, BOOLEAN, {0},
                        {300}, {50}, {0}))

Spec == Init /\ [][Next]_vars

\* Effective means: a control group and its treatment groups, every sign of
\* the baseline mean, the spread and max_change, both values of the
\* significant flag; by direct call, zero spread at every precision.
InitMeans ==
    \/ InitWith(CliRuns(Designs, 0..MaxN, Kinds, {True, false, yes}, {1},
                        {-300, 300}, {-100, 0, 100}, {-4, 4}, BOOLEAN))
    \/ InitWith(ApiRuns(Designs, 0..MaxN, Kinds, BOOLEAN, {0, 1, 2},
                        {-300, 0, 300}, {0}, {-4, 0, 4}))

SpecMeans == InitMeans /\ [][Next]_vars

----------------------------------------------------------------------------
(* Vocabulary of the properties.                                            *)

Done(step) == \E j \in 1..Len(steps) : steps[j] = step

\* create_dataset has returned its DataFrame
Assembled == Done("assemble")

Supported(kind) == kind \in {"normal", "exponential"}

Rows(label) == Cardinality({j \in 1..Len(data) : data[j].Group = label})
Declarations(label) ==
    Cardinality({g \in 1..Len(args.groups) : args.groups[g] = label})
DeclaredLabels == {args.groups[g] : g \in 1..Len(args.groups)}
\* Where a label that is declared once stands in the declared list.
DeclaredAt(label) == CHOOSE g \in 1..Len(args.groups) : args.groups[g] = label

\* The block a row belongs to and its place in the block, by position.
BlockOf(j) == ((j - 1) \div args.n_per_group) + 1
PlaceOf(j) == ((j - 1) % args.n_per_group) + 1

\* Percent x the upper end of the perturbation: baseline x (100 + max_change)
Inflated == args.mean * (Percent + args.max_change)

IsPrefix(s, t) == Len(s) <= Len(t) /\ \A j \in 1..Len(s) : s[j] = t[j]

----------------------------------------------------------------------------
\* C1: once create_dataset has returned, the Dataset has exactly
\* (number of declared groups) x n_per_group observations.
C1_RowCount ==
    Assembled => Len(data) = Len(args.groups) * args.n_per_group

C1_Witness ==
    /\ Assembled
    /\ Len(args.groups) = 2
    /\ args.n_per_group = 2
    /\ Len(data) = 4

C3_UnsupportedDistribution ==
    \A c \in 1..Len(calls) :
        /\ ~Supported(calls[c].distribution) =>
              /\ pc = "failed"
              /\ error = ValueError(<<"Unsupported distribution: ",
                                      calls[c].distribution>>)
              /\ ~csv.written
              /\ ~png.written
              /\ ~Done("csv")
        /\ calls[c].error # NoError =>
              /\ pc = "failed"
              /\ error = calls[c].error
              /\ ~csv.written
              /\ ~png.written

C3_Witness ==
    /\ Len(calls) = 1
    /\ calls[1].distribution = "uniform"
    /\ pc = "failed"
    /\ error.msg = <<"Unsupported distribution: ", "uniform">>

\* C4 as stated: every identifier has 8 characters and no two observations
\* of a Dataset share an identifier.
C4_UniqueIds ==
    /\ \A j \in 1..Len(data) : Len(data[j].ID) = 8
    /\ \A j, l \in 1..Len(data) : j # l => data[j].ID # data[l].ID

C8_LinearOrder ==
    /\ input.entry = "cli" => IsPrefix(steps, <<"parse", "assemble", "csv", "plot">>)
    /\ csv.written =>
          /\ Assembled
          /\ i > Len(args.groups)
          /\ csv.rows = data
          /\ Len(data) = Len(args.groups) * args.n_per_group
    /\ png.written => args.plot /\ csv.written /\ Done("csv")
    /\ ~args.plot => ~png.written /\ ~Done("plot")

C8_Witness ==
    /\ pc = "done"
    /\ png.written
    /\ steps = <<"parse", "assemble", "csv", "plot">>
    /\ Len(csv.rows) = 4

----------------------------------------------------------------------------
\* C5: the mean passed to the sampler for the first declared group is the
\* configured baseline mean; no perturbation and no noise is drawn for it.
C5_BaselineMeanExact ==
    /\ pc = "sample" /\ i = 1 => group_mean = args.mean
    /\ Len(draws) >= 1 => ~draws[1].perturbed /\ ~draws[1].noised
    /\ Len(calls) >= 1 => calls[1].mean = args.mean

C5_Witness ==
    /\ Len(calls) = 2
    /\ ~args.significant
    /\ args.sd # 0
    /\ args.max_change # 0
    /\ calls[1].mean = args.mean
    /\ calls[2].mean # args.mean

ValueAtZeroSpread(g) ==
    round((args.mean * (Percent + draws[g].change)) \div Percent, args.precision)

AllRowsAtZeroSpread ==
    \A j \in 1..Len(data) :
        /\ BlockOf(j) <= Len(draws)
        /\ data[j].value = ValueAtZeroSpread(BlockOf(j))

NoiseOnlyWhenBlurring ==
    \A g \in 1..Len(draws) : draws[g].noised <=> (~args.significant /\ g > 1)

SameSpreadEveryGroup ==
    \A c \in 1..Len(calls) : calls[c].sd = args.sd

====
